---- MODULE Spec2Model ----
(***************************************************************************)
(* EntityDetailsBase (frontend/src/modules/entitydetails/components/       *)
(* EntityDetails.js): the refresh-on-change policy of the component        *)
(* (componentDidMount / componentDidUpdate -> updateFailedChecks +         *)
(* fetchHelpersData), the machinery search handler and the navigation      *)
(* handlers that go through the unsaved-changes guard.                     *)
(*                                                                         *)
(* The state is the component's props, the list of store actions the last  *)
(* callback dispatched, and the continuation the unsaved-changes guard     *)
(* holds.  JavaScript null / undefined is NoEntity (0) for an entity or an *)
(* entity key and NoLocale for the locale.                                 *)
(***************************************************************************)
EXTENDS Integers, Sequences, FiniteSets, TLC

(* ------------------------------------------------------------------ *)
(* Bounds of the model                                                 *)
(* ------------------------------------------------------------------ *)

\* plural forms are -1 (the "no plural" sentinel) .. MaxPlural
MaxPlural == 1

(* ------------------------------------------------------------------ *)
(* Values                                                              *)
(* ------------------------------------------------------------------ *)

NoEntity == 0
NoLocale == "null"
NoCallback == [kind |-> "none"]

\* Entity objects.  Two objects may carry the same pk: the store replaces an
\* entity object when its translations change, and `===` compares objects.
Entities == {1, 2, 3}

EntityPk(e) == (e + 1) \div 2

EntityFormat(e) == IF e = 1 THEN "ftl" ELSE "po"

EntityOriginal(e) ==
    CASE e = 1 -> "title = Hello"
      [] e = 2 -> "title = Hello!"
      [] OTHER -> "Bye"

EntityMachineryOriginal(e) ==
    CASE e = 1 -> "title = Hello"
      [] e = 2 -> "Hello!"
      [] OTHER -> "Bye"

Translation(approved, fuzzy, errors, warnings) ==
    [approved |-> approved, fuzzy |-> fuzzy, errors |-> errors, warnings |-> warnings]

\* selectedEntity.translation: one record per plural form (a JS array,
\* index 0 is element 1 here)
EntityTranslation(e) ==
    CASE e = 1 -> << Translation(FALSE, TRUE, <<"e1">>, << >>),
                     Translation(FALSE, FALSE, <<"e2">>, <<"w2">>) >>
      [] e = 2 -> << Translation(TRUE, FALSE, << >>, << >>) >>
      [] OTHER -> << Translation(FALSE, FALSE, <<"e3">>, << >>),
                     Translation(TRUE, FALSE, << >>, <<"w4", "w5">>) >>

PluralForms == (-1) .. MaxPlural
\* the entity keys a store slice or the URL can hold: none, or an entity's pk
Pks == {NoEntity} \cup {EntityPk(e) : e \in Entities}
Locales == {NoLocale, "sl"}
Strings == {"", "abc"}
Queries == {"", "hello"}
Paths == {"/sl/firefox/all/", "/sl/"}
Routers == {"router0", "router1"}
Changes == {"approve", "reject"}

Digit(d) ==
    CASE d = 0 -> "0" [] d = 1 -> "1" [] d = 2 -> "2" [] d = 3 -> "3" [] d = 4 -> "4"
      [] d = 5 -> "5" [] d = 6 -> "6" [] d = 7 -> "7" [] d = 8 -> "8" [] OTHER -> "9"

\* Number.prototype.toString() of a non-negative integer
RECURSIVE toString(_)
toString(n) == IF n < 10 THEN Digit(n) ELSE toString(n \div 10) \o Digit(n % 10)

VARIABLES
    props,      \* this.props
    mounted,    \* componentDidMount has run
    lastOp,     \* the callback that ran last, with its arguments
    changed,    \* the props that differ from prevProps in the last update
    refreshed,  \* the last callback ran updateFailedChecks + fetchHelpersData
    log,        \* the actions the last callback dispatched, in order
    threw,      \* the last callback ended in a TypeError
    pending,    \* the continuation the unsaved-changes guard holds back, and
                \* whether it is the one of the last guarded handler
    ran,        \* how often the continuation of the last guarded handler ran
    covered     \* the stale slices a fetch for the selection is under way for

vars == << props, mounted, lastOp, changed, refreshed, log, threw, pending, ran, covered >>

(* ------------------------------------------------------------------ *)
(* What a callback did: the actions it dispatched, and whether it      *)
(* ended by throwing                                                   *)
(* ------------------------------------------------------------------ *)

Ok(actions) == [log |-> actions, error |-> FALSE]
Thrown(actions) == [log |-> actions, error |-> TRUE]
\* a; b
Then(a, b) == IF a.error THEN a ELSE [log |-> a.log \o b.log, error |-> b.error]

(* ------------------------------------------------------------------ *)
(* Collaborators outside this file                                     *)
(* ------------------------------------------------------------------ *)

\* utils.getOptimizedContent(source, format): for a Fluent entity a simple
\* preview of the message (its value, without the "id = " part), otherwise
\* the source itself.
getOptimizedContent(source, format) ==
    IF format = "ftl"
    THEN CASE source = "title = Hello" -> "Hello"
           [] source = "title = Hello!" -> "Hello!"
           [] OTHER -> source
    ELSE source

\* unsavedchanges.actions.check(unsavedchanges, callback), once dispatched:
\* with unsaved changes the callback is kept until the user decides,
\* otherwise it runs at once.  callback.actions is what the callback
\* dispatches when it runs.
check(unsavedchanges, callback) ==
    IF unsavedchanges.exist
    THEN [log |-> << >>, deferred |-> callback, runs |-> 0]
    ELSE [log |-> callback.actions, deferred |-> NoCallback, runs |-> 1]

Callback(actions) == [kind |-> "callback", actions |-> actions]

(* ------------------------------------------------------------------ *)
(* The component                                                       *)
(* ------------------------------------------------------------------ *)

\* translation.errors.length || translation.warnings.length
HasFailedChecks(t) == Len(t.errors) # 0 \/ Len(t.warnings) # 0

\* the index that forgets the plural form
PluralIndexFirst(pluralForm) == 0

\* pluralForm === -1 ? 0 : pluralForm
PluralIndex(pluralForm) == IF pluralForm = -1 THEN 0 ELSE pluralForm

\* selectedEntity.translation[plural] is defined
HasTranslation(e, plural) == 0 <= plural /\ plural + 1 <= Len(EntityTranslation(e))

TranslationAt(e, plural) == EntityTranslation(e)[plural + 1]

\* updateFailedChecks without the approved-or-fuzzy conjunct
updateFailedChecksUngated(p) ==
    IF p.selectedEntity = NoEntity
    THEN Ok(<< >>)
    ELSE LET plural == IF p.pluralForm = -1 THEN 0 ELSE p.pluralForm
         IN  IF /\ HasTranslation(p.selectedEntity, plural)
                /\ HasFailedChecks(TranslationAt(p.selectedEntity, plural))
             THEN Ok(<< [type |-> "editor.updateFailedChecks",
                         failedChecks |->
                            [clErrors |-> TranslationAt(p.selectedEntity, plural).errors,
                             clWarnings |-> TranslationAt(p.selectedEntity, plural).warnings,
                             pErrors |-> << >>,
                             pndbWarnings |-> << >>,
                             ttWarnings |-> << >>],
                         source |-> "stored"] >>)
             ELSE Ok(<< [type |-> "editor.resetFailedChecks"] >>)

updateFailedChecks(p) ==
    IF p.selectedEntity = NoEntity
    THEN Ok(<< >>)
    ELSE LET plural == PluralIndex(p.pluralForm)
         IN  IF /\ HasTranslation(p.selectedEntity, plural)
                /\ HasFailedChecks(TranslationAt(p.selectedEntity, plural))
                /\ \/ TranslationAt(p.selectedEntity, plural).approved
                   \/ TranslationAt(p.selectedEntity, plural).fuzzy
             THEN Ok(<< [type |-> "editor.updateFailedChecks",
                         failedChecks |->
                            [clErrors |-> TranslationAt(p.selectedEntity, plural).errors,
                             clWarnings |-> TranslationAt(p.selectedEntity, plural).warnings,
                             pErrors |-> << >>,
                             pndbWarnings |-> << >>,
                             ttWarnings |-> << >>],
                         source |-> "stored"] >>)
             ELSE Ok(<< [type |-> "editor.resetFailedChecks"] >>)

\* the history condition without its pluralForm disjunct
HistoryIsStaleIgnoringPlural(p) ==
    \/ EntityPk(p.selectedEntity) # p.history.entity
    \/ p.selectedEntity = p.nextEntity

HistoryIsStale(p) ==
    \/ EntityPk(p.selectedEntity) # p.history.entity
    \/ p.pluralForm # p.history.pluralForm
    \/ p.selectedEntity = p.nextEntity

fetchHistory(p) ==
    IF HistoryIsStale(p)
    THEN << [type |-> "history.request", entity |-> p.parameters.entity,
             pluralForm |-> p.pluralForm],
            [type |-> "history.get", entity |-> p.parameters.entity,
             locale |-> p.parameters.locale, pluralForm |-> p.pluralForm] >>
    ELSE << >>

\* the other-locales condition reading the history slice
OtherlocalesIsStaleByHistory(p) == EntityPk(p.selectedEntity) # p.history.entity

OtherlocalesIsStale(p) == EntityPk(p.selectedEntity) # p.otherlocales.entity

fetchOtherlocales(p) ==
    IF OtherlocalesIsStale(p)
    THEN << [type |-> "otherlocales.get", entity |-> p.parameters.entity,
             locale |-> p.parameters.locale] >>
    ELSE << >>

\* the machinery condition reading the other-locales slice
MachineryIsStaleByOtherlocales(p) == EntityPk(p.selectedEntity) # p.otherlocales.entity

MachineryIsStale(p) == EntityPk(p.selectedEntity) # p.machinery.entity

fetchMachinery(p) ==
    IF MachineryIsStale(p)
    THEN << [type |-> "machinery.get",
             source |-> getOptimizedContent(
                            EntityMachineryOriginal(p.selectedEntity),
                            EntityFormat(p.selectedEntity)),
             locale |-> p.locale,
             pk |-> EntityPk(p.selectedEntity)] >>
    ELSE << >>

\* the guard without its !locale disjunct
NothingToFetchIgnoringLocale(p) ==
    p.parameters.entity = 0 \/ p.selectedEntity = NoEntity

\* !parameters.entity || !selectedEntity || !locale
NothingToFetch(p) ==
    p.parameters.entity = 0 \/ p.selectedEntity = NoEntity \/ p.locale = NoLocale

fetchHelpersData(p) ==
    IF NothingToFetch(p)
    THEN Ok(<< >>)
    ELSE IF p.selectedEntity = NoEntity
         THEN Thrown(<< >>)   \* selectedEntity.pk of a null selectedEntity
         ELSE Ok(fetchHistory(p) \o fetchOtherlocales(p) \o fetchMachinery(p))

\* the two calls in the other order
RefreshFetchFirst(p) == Then(fetchHelpersData(p), updateFailedChecks(p))

\* the two calls of componentDidMount and of componentDidUpdate's branch
Refresh(p) == Then(updateFailedChecks(p), fetchHelpersData(p))

\* the condition without its selectedEntity === nextEntity conjunct
ShouldRefreshOnAnyString(prevProps, p) ==
    \/ p.pluralForm # prevProps.pluralForm
    \/ p.selectedEntity # prevProps.selectedEntity
    \/ p.activeTranslationString # prevProps.activeTranslationString

ShouldRefresh(prevProps, p) ==
    \/ p.pluralForm # prevProps.pluralForm
    \/ p.selectedEntity # prevProps.selectedEntity
    \/ /\ p.selectedEntity = p.nextEntity
       /\ p.activeTranslationString # prevProps.activeTranslationString

didUpdate(prevProps, p) ==
    IF ShouldRefresh(prevProps, p) THEN Refresh(p) ELSE Ok(<< >>)

\* the search falling back on machinery_original, as the refresh does
searchMachineryForOptimized(p, query) ==
    LET fallback == p.selectedEntity # NoEntity /\ Len(query) = 0
    IN  Ok(<< [type |-> "machinery.get",
               source |-> IF fallback
                          THEN getOptimizedContent(
                                   EntityMachineryOriginal(p.selectedEntity),
                                   EntityFormat(p.selectedEntity))
                          ELSE query,
               locale |-> p.locale,
               pk |-> IF fallback THEN EntityPk(p.selectedEntity) ELSE NoEntity] >>)

searchMachineryFor(p, query) ==
    LET fallback == p.selectedEntity # NoEntity /\ Len(query) = 0
    IN  Ok(<< [type |-> "machinery.get",
               source |-> IF fallback THEN EntityOriginal(p.selectedEntity) ELSE query,
               locale |-> p.locale,
               pk |-> IF fallback THEN EntityPk(p.selectedEntity) ELSE NoEntity] >>)

\* dispatch(unsavedchanges.actions.check(this.props.unsavedchanges, callback)):
\* the check action, then whatever the guard runs at once
Guarded(p, callback) ==
    LET g == check(p.unsavedchanges, callback)
    IN  [log |-> << [type |-> "unsavedchanges.check",
                     unsavedchanges |-> p.unsavedchanges,
                     callback |-> callback] >> \o g.log,
         deferred |-> g.deferred,
         runs |-> g.runs]

\* goToNextEntity dispatching the navigation itself, after the check
goToNextEntityUnguarded(p) ==
    LET callback == Callback(<< [type |-> "navigation.updateEntity", router |-> p.router,
                                 entity |-> toString(EntityPk(p.nextEntity))] >>)
    IN  [log |-> << [type |-> "unsavedchanges.check",
                     unsavedchanges |-> p.unsavedchanges,
                     callback |-> callback] >> \o callback.actions,
         deferred |-> NoCallback,
         runs |-> 1]

goToNextEntityFor(p) ==
    Guarded(p, Callback(<< [type |-> "navigation.updateEntity", router |-> p.router,
                            entity |-> toString(EntityPk(p.nextEntity))] >>))

goToPreviousEntityFor(p) ==
    Guarded(p, Callback(<< [type |-> "navigation.updateEntity", router |-> p.router,
                            entity |-> toString(EntityPk(p.previousEntity))] >>))

navigateToPathFor(p, path) ==
    Guarded(p, Callback(<< [type |-> "push", path |-> path] >>))

updateTranslationStatusFor(p, translationId, change) ==
    Guarded(p, Callback(<< [type |-> "history.updateStatus",
                            change |-> change,
                            entity |-> p.selectedEntity,
                            locale |-> p.locale,
                            resource |-> p.parameters.resource,
                            pluralForm |-> p.pluralForm,
                            translationId |-> translationId,
                            nextEntity |-> p.nextEntity,
                            router |-> p.router] >>))

(* ------------------------------------------------------------------ *)
(* Props                                                               *)
(* ------------------------------------------------------------------ *)

PropNames ==
    {"activeTranslationString", "history", "locale", "machinery", "nextEntity",
     "otherlocales", "parameters", "pluralForm", "previousEntity", "router",
     "selectedEntity", "unsavedchanges"}

\* editor and user are handed on to the children; nothing in this file reads
\* them, so only the fact that one of them changed is modelled
OpaqueProps == {"editor", "user"}

Parameters(entity) == [entity |-> entity, locale |-> "sl", resource |-> "all"]

InitialProps ==
    [activeTranslationString |-> "",
     history |-> [entity |-> NoEntity, pluralForm |-> -1],
     locale |-> "sl",
     machinery |-> [entity |-> NoEntity],
     nextEntity |-> 2,
     otherlocales |-> [entity |-> NoEntity],
     parameters |-> Parameters(1),
     pluralForm |-> -1,
     previousEntity |-> 3,
     router |-> "router0",
     selectedEntity |-> 1,
     unsavedchanges |-> [exist |-> FALSE]]

FullDomain(f) ==
    CASE f = "activeTranslationString" -> Strings
      [] f = "history" -> [entity : Pks, pluralForm : PluralForms]
      [] f = "locale" -> Locales
      [] f = "machinery" -> [entity : Pks]
      [] f = "nextEntity" -> Entities
      [] f = "otherlocales" -> [entity : Pks]
      [] f = "parameters" -> {Parameters(pk) : pk \in Pks}
      [] f = "pluralForm" -> PluralForms
      [] f = "previousEntity" -> Entities
      [] f = "router" -> Routers
      [] f = "selectedEntity" -> Entities \cup {NoEntity}
      [] f = "unsavedchanges" -> [exist : BOOLEAN]

Fixed(f) == {InitialProps[f]}

\* the props the refresh reads take every value
RefreshDomain ==
    [f \in PropNames |->
        IF f \in {"activeTranslationString", "previousEntity", "router", "unsavedchanges"}
        THEN Fixed(f)
        ELSE FullDomain(f)]

\* every prop changes; the slices are fresh for entity 1 or empty
UpdateDomain ==
    [f \in PropNames |->
        CASE f = "history" -> {[entity |-> NoEntity, pluralForm |-> -1],
                               [entity |-> 1, pluralForm |-> 0]}
          [] f = "otherlocales" -> {[entity |-> NoEntity], [entity |-> 1]}
          [] f = "machinery" -> {[entity |-> NoEntity], [entity |-> 1]}
          [] f = "previousEntity" -> Fixed(f)
          [] OTHER -> FullDomain(f)]

\* the selection, the plural form and the slices change; there is always
\* an entity parameter and a locale
StaleDomain ==
    [f \in PropNames |->
        CASE f = "parameters" -> {Parameters(pk) : pk \in Pks \ {NoEntity}}
          [] f \in {"selectedEntity", "pluralForm", "history", "otherlocales",
                    "machinery"} -> FullDomain(f)
          [] OTHER -> Fixed(f)]

\* the props the handlers read take every value
NavDomain ==
    [f \in PropNames |->
        IF f \in {"nextEntity", "previousEntity", "router", "selectedEntity",
                  "unsavedchanges"}
        THEN FullDomain(f)
        ELSE Fixed(f)]

\* the props records whose fields lie in the domains D
PropsOver(D) ==
    [activeTranslationString : D["activeTranslationString"],
     history : D["history"],
     locale : D["locale"],
     machinery : D["machinery"],
     nextEntity : D["nextEntity"],
     otherlocales : D["otherlocales"],
     parameters : D["parameters"],
     pluralForm : D["pluralForm"],
     previousEntity : D["previousEntity"],
     router : D["router"],
     selectedEntity : D["selectedEntity"],
     unsavedchanges : D["unsavedchanges"]]

(* ------------------------------------------------------------------ *)
(* The slices and the selection                                        *)
(* ------------------------------------------------------------------ *)

Slices == {"history", "otherlocales", "machinery"}

FetchType(s) ==
    CASE s = "history" -> "history.get"
      [] s = "otherlocales" -> "otherlocales.get"
      [] OTHER -> "machinery.get"

Types(actions) == [i \in 1 .. Len(actions) |-> actions[i].type]

Dispatched(actions, type) == \E i \in 1 .. Len(actions) : actions[i].type = type

Count(actions, type) == Cardinality({i \in 1 .. Len(actions) : actions[i].type = type})

\* the slice records the selected entity (and, for history, the plural form)
Fresh(s, p) ==
    /\ p[s].entity = EntityPk(p.selectedEntity)
    /\ s = "history" => p.history.pluralForm = p.pluralForm

\* what a slice's data is keyed by
SelectionKey(s, p) ==
    IF s = "history" THEN << EntityPk(p.selectedEntity), p.pluralForm >>
    ELSE << EntityPk(p.selectedEntity) >>

Present(p) == ~NothingToFetch(p)

\* a fetch of slice s for the entity selected in q is among the actions
FetchedFor(s, q, actions) ==
    \E i \in 1 .. Len(actions) :
        /\ actions[i].type = FetchType(s)
        /\ s = "machinery" => actions[i].pk = EntityPk(q.selectedEntity)

\* The stale slices for which a fetch for the current selection has been
\* dispatched since they became stale: the ones fetched now, and the ones
\* fetched before that were stale before and are still keyed the same.
CoveredAfter(before, p, q, actions) ==
    {s \in Slices :
        /\ ~Fresh(s, q)
        /\ \/ FetchedFor(s, q, actions)
           \/ /\ s \in before
              /\ ~Fresh(s, p)
              /\ SelectionKey(s, p) = SelectionKey(s, q)}

(* ------------------------------------------------------------------ *)
(* Behaviour                                                           *)
(* ------------------------------------------------------------------ *)

InitOver(D) ==
    /\ props \in PropsOver(D)
    /\ mounted = FALSE
    /\ lastOp = [name |-> "none"]
    /\ changed = {}
    /\ refreshed = FALSE
    /\ log = << >>
    /\ threw = FALSE
    /\ pending = NoCallback
    /\ ran = 0
    /\ covered = {}

componentDidMount ==
    /\ ~mounted
    /\ mounted' = TRUE
    /\ lastOp' = [name |-> "componentDidMount"]
    /\ changed' = {}
    /\ refreshed' = TRUE
    /\ log' = Refresh(props).log
    /\ threw' = Refresh(props).error
    /\ UNCHANGED << props, pending, ran >>

\* one prop changes and React calls componentDidUpdate(prevProps)
componentDidUpdate(D) ==
    /\ mounted
    /\ \E f \in PropNames : \E v \in D[f] :
          /\ v # props[f]
          /\ props' = [props EXCEPT ![f] = v]
    /\ lastOp' = [name |-> "componentDidUpdate"]
    /\ changed' = {f \in PropNames : props'[f] # props[f]}
    /\ refreshed' = ShouldRefresh(props, props')
    /\ log' = didUpdate(props, props').log
    /\ threw' = didUpdate(props, props').error
    /\ UNCHANGED << mounted, pending, ran >>

\* the selected entity's translation is replaced: the entity object and the
\* active translation string change together
componentDidUpdateTranslation ==
    /\ mounted
    /\ \E e \in Entities : \E s \in Strings :
          /\ e # props.selectedEntity
          /\ s # props.activeTranslationString
          /\ props' = [props EXCEPT !.selectedEntity = e, !.activeTranslationString = s]
    /\ lastOp' = [name |-> "componentDidUpdate"]
    /\ changed' = {f \in PropNames : props'[f] # props[f]}
    /\ refreshed' = ShouldRefresh(props, props')
    /\ log' = didUpdate(props, props').log
    /\ threw' = didUpdate(props, props').error
    /\ UNCHANGED << mounted, pending, ran >>

\* editor or user changes
componentDidUpdateOpaque ==
    /\ mounted
    /\ \E f \in OpaqueProps : changed' = {f}
    /\ lastOp' = [name |-> "componentDidUpdate"]
    /\ refreshed' = ShouldRefresh(props, props)
    /\ log' = didUpdate(props, props).log
    /\ threw' = didUpdate(props, props).error
    /\ UNCHANGED << props, mounted, pending, ran >>

searchMachinery ==
    /\ mounted
    /\ \E query \in Queries :
          /\ lastOp' = [name |-> "searchMachinery", query |-> query]
          /\ log' = searchMachineryFor(props, query).log
          /\ threw' = searchMachineryFor(props, query).error
    /\ changed' = {}
    /\ refreshed' = FALSE
    /\ UNCHANGED << props, mounted, pending, ran >>

Held(callback, latest) ==
    [kind |-> "callback", actions |-> callback.actions, latest |-> latest]

\* a handler that goes through the unsaved-changes guard
Handle(op, g) ==
    /\ lastOp' = op
    /\ log' = g.log
    /\ pending' = IF g.deferred # NoCallback THEN Held(g.deferred, TRUE)
                  ELSE IF pending # NoCallback THEN Held(pending, FALSE)
                  ELSE NoCallback
    /\ ran' = g.runs
    /\ threw' = FALSE
    /\ changed' = {}
    /\ refreshed' = FALSE
    /\ UNCHANGED << props, mounted >>

goToNextEntity ==
    /\ mounted
    /\ Handle([name |-> "goToNextEntity"], goToNextEntityFor(props))

goToPreviousEntity ==
    /\ mounted
    /\ Handle([name |-> "goToPreviousEntity"], goToPreviousEntityFor(props))

navigateToPath ==
    /\ mounted
    /\ \E path \in Paths :
          Handle([name |-> "navigateToPath", path |-> path], navigateToPathFor(props, path))

updateTranslationStatus ==
    /\ mounted
    /\ \E change \in Changes :
          Handle([name |-> "updateTranslationStatus", translationId |-> 7,
                  change |-> change],
                 updateTranslationStatusFor(props, 7, change))

\* the user lets the guard go on: the kept callback runs
GuardProceed ==
    /\ pending # NoCallback
    /\ lastOp' = [name |-> "guard.proceed"]
    /\ log' = pending.actions
    /\ pending' = NoCallback
    /\ ran' = IF pending.latest THEN ran + 1 ELSE ran
    /\ threw' = FALSE
    /\ changed' = {}
    /\ refreshed' = FALSE
    /\ UNCHANGED << props, mounted >>

\* the user stays: the kept callback is dropped
GuardCancel ==
    /\ pending # NoCallback
    /\ lastOp' = [name |-> "guard.cancel"]
    /\ log' = << >>
    /\ pending' = NoCallback
    /\ threw' = FALSE
    /\ changed' = {}
    /\ refreshed' = FALSE
    /\ UNCHANGED << props, mounted, ran >>

\* the slices' fetches are followed in SpecStale only
Untracked == UNCHANGED covered

Tracked == covered' = CoveredAfter(covered, props, props', log')

\* the refresh and the machinery search, and what they dispatch
Init == InitOver(RefreshDomain)

Next ==
    \/ componentDidMount /\ Untracked
    \/ componentDidUpdate(RefreshDomain) /\ Untracked
    \/ searchMachinery /\ Untracked

Spec == Init /\ [][Next]_vars

\* when the refresh runs
InitUpdate == InitOver(UpdateDomain)

NextUpdate ==
    \/ componentDidMount /\ Untracked
    \/ componentDidUpdate(UpdateDomain) /\ Untracked
    \/ componentDidUpdateTranslation /\ Untracked
    \/ componentDidUpdateOpaque /\ Untracked

SpecUpdate == InitUpdate /\ [][NextUpdate]_vars

\* the slices against the selection
InitStale == InitOver(StaleDomain)

NextStale ==
    \/ componentDidMount /\ Tracked
    \/ componentDidUpdate(StaleDomain) /\ Tracked
    \/ searchMachinery /\ Tracked

SpecStale == InitStale /\ [][NextStale]_vars

\* the handlers and the unsaved-changes guard
InitNav == InitOver(NavDomain)

NextNav ==
    \/ componentDidMount /\ Untracked
    \/ componentDidUpdate(NavDomain) /\ Untracked
    \/ goToNextEntity /\ Untracked
    \/ goToPreviousEntity /\ Untracked
    \/ navigateToPath /\ Untracked
    \/ updateTranslationStatus /\ Untracked
    \/ GuardProceed /\ Untracked
    \/ GuardCancel /\ Untracked

SpecNav == InitNav /\ [][NextNav]_vars

(* ------------------------------------------------------------------ *)
(* Properties                                                          *)
(* ------------------------------------------------------------------ *)

FailedChecksTypes == {"editor.updateFailedChecks", "editor.resetFailedChecks"}
FetchTypes == {"history.request", "history.get", "otherlocales.get", "machinery.get"}
RefreshTypes == FailedChecksTypes \cup FetchTypes

NoneOf(actions, types) == \A i \in 1 .. Len(actions) : actions[i].type \notin types

\* C1: the refresh pair runs on mount; on an update it runs if and only if
\* pluralForm changed, or selectedEntity changed, or selectedEntity is
\* nextEntity and activeTranslationString changed; an update in which only
\* other props change dispatches no failed-checks action and no fetch.
C1_RefreshIffSelectionChanged ==
    [][/\ lastOp'.name = "componentDidMount" =>
             refreshed' /\ log' = Refresh(props').log
       /\ lastOp'.name = "componentDidUpdate" =>
             IF \/ props'.pluralForm # props.pluralForm
                \/ props'.selectedEntity # props.selectedEntity
                \/ /\ props'.selectedEntity = props'.nextEntity
                   /\ props'.activeTranslationString # props.activeTranslationString
             THEN refreshed' /\ log' = Refresh(props').log
             ELSE ~refreshed' /\ NoneOf(log', RefreshTypes)]_vars

\* C1 witness: only the history slice changed, to a stale value, with
\* everything needed for a fetch present, and nothing was dispatched.
C1_Witness ==
    /\ lastOp.name = "componentDidUpdate"
    /\ changed = {"history"}
    /\ Present(props)
    /\ ~Fresh("history", props)
    /\ ~refreshed
    /\ log = << >>

\* the translation of the selected entity at the active plural form exists,
\* is approved or fuzzy, and has an error or a warning
StoredChecksShown(p) ==
    LET index == IF p.pluralForm = -1 THEN 1 ELSE p.pluralForm + 1
        all == EntityTranslation(p.selectedEntity)
    IN  /\ index <= Len(all)
        /\ all[index].approved \/ all[index].fuzzy
        /\ all[index].errors # << >> \/ all[index].warnings # << >>

\* the updateFailedChecks action of the translation at a JS index
StoredChecksOf(e, index) ==
    [type |-> "editor.updateFailedChecks",
     failedChecks |-> [clErrors |-> EntityTranslation(e)[index + 1].errors,
                       clWarnings |-> EntityTranslation(e)[index + 1].warnings,
                       pErrors |-> << >>, pndbWarnings |-> << >>, ttWarnings |-> << >>],
     source |-> "stored"]

FailedChecksActions(actions) ==
    {i \in 1 .. Len(actions) : actions[i].type \in FailedChecksTypes}

\* C2 as stated: every refresh dispatches exactly one failed-checks action,
\* updateFailedChecks tagged 'stored' if the active plural's translation
\* exists, is approved or fuzzy and has an error or a warning, and
\* resetFailedChecks in every other case, no selected entity included.
C2_Original ==
    refreshed =>
        /\ Cardinality(FailedChecksActions(log)) = 1
        /\ IF props.selectedEntity # NoEntity /\ StoredChecksShown(props)
           THEN Dispatched(log, "editor.updateFailedChecks")
           ELSE Dispatched(log, "editor.resetFailedChecks")

\* C2 amended: a refresh with a selected entity dispatches exactly one
\* failed-checks action (updateFailedChecks tagged 'stored' if the active
\* plural's translation exists, is approved or fuzzy and has an error or a
\* warning, resetFailedChecks otherwise); a refresh with no selected entity
\* dispatches no failed-checks action at all.
C2_FailedChecksWhenSelected ==
    refreshed =>
        IF props.selectedEntity = NoEntity
        THEN log = << >>
        ELSE /\ Cardinality(FailedChecksActions(log)) = 1
             /\ IF StoredChecksShown(props)
                THEN /\ log[1].type = "editor.updateFailedChecks"
                     /\ log[1].source = "stored"
                ELSE log[1] = [type |-> "editor.resetFailedChecks"]

\* C2 witness: a refresh on a translation that is neither approved nor
\* fuzzy and has an error reset the failed checks.
C2_Witness ==
    /\ refreshed
    /\ props.selectedEntity = 3
    /\ props.pluralForm = 0
    /\ EntityTranslation(3)[1].errors = <<"e3">>
    /\ log[1] = [type |-> "editor.resetFailedChecks"]

\* C3: with no entity parameter, no selected entity or no locale, a refresh
\* dispatches none of history.request, history.get, otherlocales.get and
\* machinery.get, however stale the slices are, and throws nothing.
C3_NoFetchWithoutEntityOrLocale ==
    (/\ refreshed
     /\ \/ props.parameters.entity = 0
        \/ props.selectedEntity = NoEntity
        \/ props.locale = NoLocale)
    => NoneOf(log, FetchTypes) /\ ~threw

\* C3 witness: a triggering update with every slice stale and no locale.
C3_Witness ==
    /\ lastOp.name = "componentDidUpdate"
    /\ refreshed
    /\ props.locale = NoLocale
    /\ props.parameters.entity # 0
    /\ props.selectedEntity # NoEntity
    /\ \A s \in Slices : ~Fresh(s, props)
    /\ NoneOf(log, FetchTypes)

HistoryRequest(p) ==
    [type |-> "history.request", entity |-> p.parameters.entity,
     pluralForm |-> p.pluralForm]

HistoryGet(p) ==
    [type |-> "history.get", entity |-> p.parameters.entity,
     locale |-> p.parameters.locale, pluralForm |-> p.pluralForm]

Has(actions, a) == \E i \in 1 .. Len(actions) : actions[i] = a

\* C7: in a refresh with entity parameter, selected entity and locale,
\* history.request(parameters.entity, pluralForm) and
\* history.get(parameters.entity, parameters.locale, pluralForm) are
\* dispatched if and only if selectedEntity.pk differs from the history
\* slice's entity, or pluralForm differs from its plural form, or
\* selectedEntity is nextEntity; otherwise no history action is dispatched.
C7_HistoryFetchedIffStale ==
    (/\ refreshed
     /\ props.parameters.entity # 0
     /\ props.selectedEntity # NoEntity
     /\ props.locale # NoLocale)
    => IF \/ EntityPk(props.selectedEntity) # props.history.entity
          \/ props.pluralForm # props.history.pluralForm
          \/ props.selectedEntity = props.nextEntity
       THEN /\ Has(log, HistoryRequest(props))
            /\ Has(log, HistoryGet(props))
            /\ Count(log, "history.request") = 1
            /\ Count(log, "history.get") = 1
       ELSE NoneOf(log, {"history.request", "history.get"})

\* C7 witness: a refresh whose history slice matches the selection, the
\* selected entity not being the next one, dispatched no history action
\* while it fetched the other two slices.
C7_Witness ==
    /\ refreshed
    /\ Present(props)
    /\ props.history = [entity |-> EntityPk(props.selectedEntity),
                        pluralForm |-> props.pluralForm]
    /\ props.selectedEntity # props.nextEntity
    /\ Types(log) = << "editor.resetFailedChecks", "otherlocales.get", "machinery.get" >>

\* utils.getOptimizedContent(selectedEntity.machinery_original, selectedEntity.format)
OptimizedSource(e) == getOptimizedContent(EntityMachineryOriginal(e), EntityFormat(e))

\* C8: in a refresh with entity parameter, selected entity and locale,
\* otherlocales.get(parameters.entity, parameters.locale) is dispatched if and
\* only if the other-locales slice's entity differs from selectedEntity.pk,
\* and machinery.get(optimized machinery_original, locale, selectedEntity.pk)
\* if and only if the machinery slice's entity differs from it, each
\* whatever the other slice, the history slice and the plural form are.
C8_EntitySlicesFetchedIffStale ==
    (/\ refreshed
     /\ props.parameters.entity # 0
     /\ props.selectedEntity # NoEntity
     /\ props.locale # NoLocale)
    => /\ IF props.otherlocales.entity # EntityPk(props.selectedEntity)
          THEN /\ Has(log, [type |-> "otherlocales.get",
                            entity |-> props.parameters.entity,
                            locale |-> props.parameters.locale])
               /\ Count(log, "otherlocales.get") = 1
          ELSE ~Dispatched(log, "otherlocales.get")
       /\ IF props.machinery.entity # EntityPk(props.selectedEntity)
          THEN /\ Has(log, [type |-> "machinery.get",
                            source |-> OptimizedSource(props.selectedEntity),
                            locale |-> props.locale,
                            pk |-> EntityPk(props.selectedEntity)])
               /\ Count(log, "machinery.get") = 1
          ELSE ~Dispatched(log, "machinery.get")

\* C8 witness: only the plural form changed, on an entity both slices
\* record: history was fetched, other-locales and machinery were not.
C8_Witness ==
    /\ lastOp.name = "componentDidUpdate"
    /\ changed = {"pluralForm"}
    /\ Present(props)
    /\ props.otherlocales.entity = EntityPk(props.selectedEntity)
    /\ props.machinery.entity = EntityPk(props.selectedEntity)
    /\ Dispatched(log, "history.get")
    /\ ~Dispatched(log, "otherlocales.get")
    /\ ~Dispatched(log, "machinery.get")

\* C9: after a plural-form change the failed checks are those of the
\* translation at the new plural index, -1 selecting index 0: a published
\* action carries exactly that translation's errors and warnings, three
\* empty lists besides, and the tag 'stored'; entity 1, fuzzy with one error
\* and no warning at index 0, publishes one error and no warning.
C9_ChecksOfTheNewPluralForm ==
    (lastOp.name = "componentDidUpdate" /\ "pluralForm" \in changed)
    => /\ refreshed
       /\ props.selectedEntity # NoEntity =>
             Cardinality(FailedChecksActions(log)) = 1
       /\ \A i \in 1 .. Len(log) :
             log[i].type = "editor.updateFailedChecks" =>
                LET index == IF props.pluralForm = -1 THEN 0 ELSE props.pluralForm
                IN  /\ index + 1 <= Len(EntityTranslation(props.selectedEntity))
                    /\ log[i] = StoredChecksOf(props.selectedEntity, index)
       /\ (props.selectedEntity = 1 /\ props.pluralForm \in {-1, 0}) =>
             /\ log[1].type = "editor.updateFailedChecks"
             /\ Len(log[1].failedChecks.clErrors) = 1
             /\ Len(log[1].failedChecks.clWarnings) = 0
       /\ (props.selectedEntity = 3 /\ props.pluralForm = 1) =>
             log[1] = StoredChecksOf(3, 1)

\* C9 witness: the plural form changed to 1 on entity 3, whose second
\* translation is approved with two warnings, and those were published.
C9_Witness ==
    /\ lastOp.name = "componentDidUpdate"
    /\ changed = {"pluralForm"}
    /\ props.selectedEntity = 3
    /\ props.pluralForm = 1
    /\ log[1].type = "editor.updateFailedChecks"
    /\ log[1].failedChecks.clErrors = << >>
    /\ log[1].failedChecks.clWarnings = <<"w4", "w5">>
    /\ log[1].source = "stored"

Rank(type) ==
    CASE type \in FailedChecksTypes -> 0
      [] type = "history.request" -> 1
      [] type = "history.get" -> 2
      [] type = "otherlocales.get" -> 3
      [] type = "machinery.get" -> 4
      [] OTHER -> 5

\* C10: within a refresh the failed-checks action comes before any fetch,
\* history.request comes immediately before history.get, for the same entity
\* and plural form, and the fetches come in the order history,
\* other-locales, machinery.
C10_DispatchOrder ==
    refreshed =>
        /\ \A i, j \in 1 .. Len(log) : i < j => Rank(log[i].type) < Rank(log[j].type)
        /\ (\E i \in 1 .. Len(log) : log[i].type \in FetchTypes) =>
              log[1].type \in FailedChecksTypes
        /\ \A i \in 1 .. Len(log) :
              log[i].type = "history.get" =>
                 /\ i > 1
                 /\ log[i - 1].type = "history.request"
                 /\ log[i - 1].entity = log[i].entity
                 /\ log[i - 1].pluralForm = log[i].pluralForm

\* C10 witness: a refresh that dispatched all five actions.
C10_Witness ==
    /\ refreshed
    /\ Types(log) = << "editor.updateFailedChecks", "history.request", "history.get",
                       "otherlocales.get", "machinery.get" >>

NavTypes == {"navigation.updateEntity", "push", "history.updateStatus"}

GuardedHandlers ==
    {"goToNextEntity", "goToPreviousEntity", "navigateToPath", "updateTranslationStatus"}

\* entity.pk.toString() of each entity
PkString(e) == CASE e = 3 -> "2" [] OTHER -> "1"

\* what the continuation of the last handler is to dispatch
Continuation(op, p) ==
    CASE op.name = "goToNextEntity" ->
            [type |-> "navigation.updateEntity", router |-> p.router,
             entity |-> PkString(p.nextEntity)]
      [] op.name = "goToPreviousEntity" ->
            [type |-> "navigation.updateEntity", router |-> p.router,
             entity |-> PkString(p.previousEntity)]
      [] op.name = "navigateToPath" -> [type |-> "push", path |-> op.path]
      [] op.name = "updateTranslationStatus" ->
            [type |-> "history.updateStatus", change |-> op.change,
             entity |-> p.selectedEntity, locale |-> p.locale,
             resource |-> p.parameters.resource, pluralForm |-> p.pluralForm,
             translationId |-> op.translationId, nextEntity |-> p.nextEntity,
             router |-> p.router]

\* C4: each of goToNextEntity, goToPreviousEntity, navigateToPath and
\* updateTranslationStatus dispatches exactly one unsavedchanges.check, with
\* the current unsaved-changes state and a continuation; the navigation or
\* status action is dispatched by that continuation only: at once when there
\* are no unsaved changes, not before the guard lets it go on when there are,
\* and at most once for one call of the handler.
C4_NavigationGoesThroughTheGuard ==
    /\ lastOp.name \in GuardedHandlers =>
          /\ Count(log, "unsavedchanges.check") = 1
          /\ log[1].type = "unsavedchanges.check"
          /\ log[1].unsavedchanges = props.unsavedchanges
          /\ log[1].callback.actions = << Continuation(lastOp, props) >>
          /\ IF props.unsavedchanges.exist
             THEN /\ Len(log) = 1
                  /\ pending # NoCallback
                  /\ pending.actions = log[1].callback.actions
                  /\ pending.latest
                  /\ ran = 0
             ELSE /\ Len(log) = 2
                  /\ log[2] = Continuation(lastOp, props)
                  /\ ran = 1
    /\ lastOp.name = "guard.proceed" =>
          /\ Len(log) = 1
          /\ log[1].type \in NavTypes
          /\ pending = NoCallback
    /\ lastOp.name \notin GuardedHandlers \cup {"guard.proceed"} => NoneOf(log, NavTypes)
    /\ ran <= 1

\* C4 witness: goToNextEntity with unsaved changes dispatched the check only,
\* and the guard holds the navigation to the next entity.
C4_Witness ==
    /\ lastOp.name = "goToNextEntity"
    /\ props.unsavedchanges.exist
    /\ Types(log) = << "unsavedchanges.check" >>
    /\ pending.kind = "callback"
    /\ pending.actions[1].type = "navigation.updateEntity"
    /\ pending.actions[1].entity = "2"
    /\ ran = 0

\* C5: searchMachinery(query) dispatches exactly one machinery.get with the
\* current locale: a query that is not empty is the source, with no entity
\* key; an empty query with a selected entity makes the entity's original
\* the source and the entity's pk the key.
C5_SearchSourceAndKey ==
    lastOp.name = "searchMachinery" =>
        /\ Len(log) = 1
        /\ log[1].type = "machinery.get"
        /\ log[1].locale = props.locale
        /\ lastOp.query # "" =>
              log[1].source = lastOp.query /\ log[1].pk = NoEntity
        /\ (lastOp.query = "" /\ props.selectedEntity # NoEntity) =>
              /\ log[1].source = EntityOriginal(props.selectedEntity)
              /\ log[1].pk = EntityPk(props.selectedEntity)
        /\ (lastOp.query = "" /\ props.selectedEntity = 1) =>
              log[1].source = "title = Hello"

\* C5 witness: an empty query on entity 2 searched for its original, which
\* is not its machinery_original, under its pk.
C5_Witness ==
    /\ lastOp = [name |-> "searchMachinery", query |-> ""]
    /\ props.selectedEntity = 2
    /\ props.locale = "sl"
    /\ log = << [type |-> "machinery.get", source |-> "title = Hello!",
                 locale |-> "sl", pk |-> 1] >>

\* C6 as stated: after a mount or an update with entity parameter, selected
\* entity and locale, each of the history, other-locales and machinery
\* slices records the selection (history the plural form too) or a fetch for
\* the selection has been dispatched since it became stale.
C6_Original ==
    (lastOp.name \in {"componentDidMount", "componentDidUpdate"} /\ Present(props))
    => \A s \in Slices : Fresh(s, props) \/ s \in covered

\* C6 amended: after a refresh (a mount, or an update that changed the
\* plural form or the selected entity) with entity parameter, selected entity
\* and locale, each slice records the selection or its fetch was dispatched
\* in that refresh.
C6_RefreshFetchesWhatIsStale ==
    (refreshed /\ Present(props))
    => \A s \in Slices :
          \/ /\ props[s].entity = EntityPk(props.selectedEntity)
             /\ s = "history" => props.history.pluralForm = props.pluralForm
          \/ \E i \in 1 .. Len(log) : log[i].type = FetchType(s)

\* C6 witness: a triggering update found the other-locales slice stale and
\* the machinery slice fresh, and fetched other-locales and not machinery.
C6_Witness ==
    /\ lastOp.name = "componentDidUpdate"
    /\ refreshed
    /\ Present(props)
    /\ ~Fresh("otherlocales", props)
    /\ Fresh("machinery", props)
    /\ Dispatched(log, "otherlocales.get")
    /\ ~Dispatched(log, "machinery.get")
    /\ covered = {s \in Slices : ~Fresh(s, props)}

====
